---- MODULE Spec2Model ----
(***************************************************************************)
(* Model of the Strava Stats Stream Deck plugin: the global credential     *)
(* store, the token lifecycle of StravaService (getValidAccessToken,       *)
(* refreshAccessToken, exchangeAuthorizationCode), the polls of the        *)
(* trackers that call it and the title and background they render, the     *)
(* handlers of the OAuth setup action, the interval timers the trackers    *)
(* create and clear as their keys appear and disappear, and the handler of *)
(* the system wake-up event.                                               *)
(* Every await of the source that reads or writes the global settings or   *)
(* calls upstream is a separate step, so handlers interleave at their      *)
(* suspension points.  Overlaps of two handlers are explored; the property *)
(* inspector sends its events one after another, except in SpecSettings,   *)
(* where a settings event arrives while the previous one is handled.       *)
(***************************************************************************)
EXTENDS Integers, Sequences, FiniteSets, TLC

----------------------------------------------------------------------------
(* Bounds *)

\* the clock (Date.now()/1000) runs over 0..MaxNow
MaxNow == 1
\* upstream issues at most MaxResp token bundles
MaxResp == 2
\* the user obtains at most MaxCodes authorization codes
MaxCodes == 1

\* setInterval is called at most MaxTimers times
MaxTimers == 3
\* the longest moving time formatted, in seconds: past ten hours
MaxSeconds == 36610

(* Program constants *)

\* the 5 minute buffer of getValidAccessToken
Margin == 300
\* the HTTP status the trackers classify as a rate limit
RateLimitStatus == 429

----------------------------------------------------------------------------
(* JavaScript values held in settings records *)

Undefined == [t |-> "undefined", v |-> 0]
Null == [t |-> "null", v |-> 0]
\* a string; Str(0) is the empty string ''
Str(n) == [t |-> "string", v |-> n]
Num(n) == [t |-> "number", v |-> n]

IsString(x) == x.t = "string"
IsNumber(x) == x.t = "number"
\* JavaScript truthiness: undefined, null, '' and 0 are falsy
Truthy(x) == x.t \in {"string", "number"} /\ x.v # 0

\* the strings of the n-th token bundle issued by upstream
AccessTok(n) == Str(100 + n)
RefreshTok(n) == Str(200 + n)
\* the client id and secret of the registered Strava app
GoodId == Str(1)
GoodSecret == Str(1)
\* the athlete id upstream reports
AthleteId == Num(7)

\* what parseFloat gives for a text that is not a number
NaN == [t |-> "NaN", v |-> 0]
\* the decimal text of the number n, as a settings field holds it
Text(n) == Str(1000 + n)
\* a text that does not start with a number
NotNumeric == Str(900)
\* parseFloat(x.toString())
ParseFloat(x) ==
    IF IsNumber(x) THEN x
    ELSE IF IsString(x) /\ x.v >= 1000 THEN Num(x.v - 1000)
    ELSE NaN

\* the display modes of a tracker, and a value that is none of them
ModeDistance == Str(401)
ModeTime == Str(402)
ModeCount == Str(403)
ModeElevation == Str(404)
ModeOther == Str(405)

\* the settings of a key nobody has configured
NoSettings == [displayMode |-> Undefined, goal |-> Undefined]

\* the global settings of a fresh installation: no key is set
EmptyStore ==
    [clientId |-> Undefined, clientSecret |-> Undefined,
     accessToken |-> Undefined, refreshToken |-> Undefined,
     expiresAt |-> Undefined, athleteId |-> Undefined]

----------------------------------------------------------------------------
(* Errors *)

NoError ==
    [name |-> "none", respStatus |-> Undefined, status |-> Undefined,
     text |-> {}]
\* the error axios rejects with: an HTTP status st, or no response at all
\* (st = 0, "Network Error"); text is the set of numbers its string form shows
AxiosError(st) ==
    IF st = 0
    THEN [name |-> "AxiosError", respStatus |-> Undefined,
          status |-> Undefined, text |-> {}]
    ELSE [name |-> "AxiosError", respStatus |-> Num(st), status |-> Num(st),
          text |-> {st}]
\* new Error(`Failed to ...: ${error}`): a plain Error whose message embeds
\* the string form of the error it wraps
WrapError(inner) ==
    [name |-> "Error", respStatus |-> Undefined, status |-> Undefined,
     text |-> inner.text]
\* the error axios rejects with when the connection itself fails: no
\* response, and a message that names the peer ("connect ECONNREFUSED
\* <address>:<port>"); n is a number of that address
ConnectError(n) ==
    [name |-> "AxiosError", respStatus |-> Undefined, status |-> Undefined,
     text |-> {n}]
\* the decimal digits of a number as the message prints them
RECURSIVE Digits(_)
Digits(n) == IF n < 10 THEN <<n>> ELSE Append(Digits(n \div 10), n % 10)
\* String.prototype.includes('429') on the printed number: the digits 4, 2,
\* 9 in a row anywhere in it
Includes429(n) ==
    LET d == Digits(n)
    IN  \E i \in 1..(Len(d) - 2) : d[i] = 4 /\ d[i + 1] = 2 /\ d[i + 2] = 9
Is429_StructuredOnly(error) ==
    \/ error.respStatus = Num(RateLimitStatus)
    \/ error.status = Num(RateLimitStatus)

\* the 429 test of the trackers' catch blocks
Is429(error) ==
    \/ error.respStatus = Num(RateLimitStatus)
    \/ error.status = Num(RateLimitStatus)
    \/ \E n \in error.text : Includes429(n)

\* the statuses a call to upstream can fail with whatever it carries: rate
\* limit, or no response at all (0)
AnyTimeFailures == {RateLimitStatus, 0}
\* the status of a rejected grant (bad credentials, consumed code or token)
RejectedStatus == 400

----------------------------------------------------------------------------
(* State *)

\* the trackers whose polls call getValidAccessToken: a key of the year
\* tracker and a key of the month tracker
Polls == {"year", "month"}
\* the keys whose appearing and disappearing is followed: two keys of the
\* year tracker and a key of the week tracker
Views == {"year", "year2", "week"}
Trackers == Polls \cup Views
\* the keys of StravaYear, which has one refreshInterval for all of them
YearViews == {"year", "year2"}
\* the keys of StravaWeek, which has a refreshIntervals entry for each
WeekViews == {"week"}
\* onDidReceiveSettings runs for a settings event, and for a further one that
\* arrives while the first is still handled
SettingsTasks == {"settings", "settings2"}
\* the handlers of the OAuth setup action: onDidReceiveSettings, onKeyDown
\* and onSendToPlugin
SetupTasks == SettingsTasks \cup {"key", "plugin"}
Tasks == Trackers \cup SetupTasks
\* the k-th authorization code of the consent redirect
AuthCode(k) == Str(300 + k)

\* the lifetimes upstream gives an access token
TTLs == {Margin + 1}

VARIABLES
    store,          \* the global settings of the Stream Deck host
    now,            \* Math.floor(Date.now() / 1000)
    issued,         \* upstream: expires_at of the n-th bundle it issued
    validRefresh,   \* upstream: the bundle whose refresh token it accepts
    usedCodes,      \* upstream: the authorization codes already consumed
    task,           \* the locals and position of each handler in flight
    shown,          \* the tracker keys on the device (streamDeck.actions)
    appearing,      \* the keys whose onWillAppear awaits its first update
    refreshInterval,    \* StravaYear.refreshInterval: a timer id, 0 if unset
    refreshIntervals,   \* StravaWeek.refreshIntervals: action id -> timer id
    timers,         \* the interval timers of the runtime that are active
    created,        \* the number of timers setInterval has created
    config,         \* the settings last delivered for each tracker key
    image,          \* the background image each tracker key shows
    totals,         \* upstream: the totals of the athlete's activities
    time,           \* the text formatTime made of the moving time, if any
    wakeup          \* the position and locals of the wake-up handler

\* the state of the trackers' keys and timers, and what the keys render
widgets ==
    <<shown, appearing, refreshInterval, refreshIntervals, timers, created,
      config, image, totals, time, wakeup>>

vars == <<store, now, issued, validRefresh, usedCodes, task, widgets>>

NoRequest == [clientId |-> Undefined, clientSecret |-> Undefined,
              grant |-> Undefined]
NoPayload == [clientId |-> Undefined, clientSecret |-> Undefined,
              authCode |-> Undefined]

IdleTask ==
    [pc |-> "idle", settings |-> EmptyStore, now |-> 0, req |-> NoRequest,
     resp |-> 0, err |-> NoError, result |-> Undefined, outcome |-> "none",
     calls |-> 0, ev |-> NoPayload, isValid |-> FALSE, shown |-> "none",
     title |-> "none", widget |-> NoSettings]

\* the TokenResponse of the n-th bundle
TokenResponse(n) ==
    [access_token |-> AccessTok(n), refresh_token |-> RefreshTok(n),
     expires_at |-> Num(issued[n]), athlete |-> AthleteId]

\* the totals upstream reports for the selected activity type, and the
\* totals after one more activity
FirstTotals ==
    [distance |-> 1999, moving_time |-> 2, count |-> 1, elevation_gain |-> 2]
NextTotals ==
    [distance |-> 2000, moving_time |-> 1, count |-> 3, elevation_gain |-> 0]

\* no moving time has been formatted
NoTime == <<>>

\* the actions on the device: the tracker keys and the key of the setup action
WakeActions == Trackers \cup {"oauth"}
\* no wake-up event is being handled
NoWake ==
    [pc |-> "idle", todo |-> {}, at |-> "none",
     updates |-> [a \in WakeActions |-> 0]]

\* every key shows the default image of the manifest, and the system is awake
KeysFresh ==
    /\ image = [c \in Trackers |-> "background"]
    /\ time = NoTime
    /\ wakeup = NoWake

\* no key has been configured
KeysPlain ==
    /\ config = [c \in Trackers |-> NoSettings]
    /\ totals = FirstTotals

\* the keys of Polls are on the device; their timers are left out: a poll
\* starts at any time
WidgetsShown ==
    /\ shown = Polls
    /\ appearing = {}
    /\ refreshInterval = 0
    /\ refreshIntervals = [i \in WeekViews |-> 0]
    /\ timers = {}
    /\ created = 0
    /\ KeysFresh
    /\ KeysPlain

\* a fresh installation; the authorization codes the user holds are unused,
\* or were consumed before (codes of an earlier consent, pasted again)
Init ==
    /\ store = EmptyStore
    /\ now = 0
    /\ issued = <<>>
    /\ validRefresh = 0
    /\ usedCodes \in {{}, {AuthCode(k) : k \in 1..MaxCodes}}
    /\ task = [t \in Tasks |-> IdleTask]
    /\ WidgetsShown

\* the handlers that have started and not yet returned
InFlight == {t \in Tasks : task[t].pc # "idle"}
\* the host delivers one more event; handlers overlap in pairs: a handler
\* starts while at most one other handler is suspended at an await
CanStart == Cardinality(InFlight) <= 1

Tick ==
    /\ now < MaxNow
    /\ now' = now + 1
    /\ UNCHANGED <<widgets, store, issued, validRefresh, usedCodes, task>>

----------------------------------------------------------------------------
(* Upstream token endpoint, as reached through refreshAccessToken *)

RefreshAccepted(req) ==
    /\ validRefresh > 0
    /\ req.grant = RefreshTok(validRefresh)
    /\ req.clientId = GoodId
    /\ req.clientSecret = GoodSecret

\* upstream accepts the refresh token, rotates it and answers with a new bundle
UpstreamRefreshOk(t) ==
    /\ task[t].pc = "refreshing"
    /\ RefreshAccepted(task[t].req)
    /\ Len(issued) < MaxResp
    /\ \E ttl \in TTLs : issued' = Append(issued, now + ttl)
    /\ validRefresh' = Len(issued) + 1
    /\ task' = [task EXCEPT ![t].pc = "refreshOk", ![t].req = NoRequest,
                            ![t].resp = Len(issued) + 1]
    /\ UNCHANGED <<widgets, store, now, usedCodes>>

\* the request fails: rejected because the token or the credentials are not
\* accepted, or rate limited, or lost
UpstreamRefreshFail(t, st) ==
    /\ task[t].pc = "refreshing"
    /\ \/ st \in AnyTimeFailures
       \/ st = RejectedStatus /\ ~RefreshAccepted(task[t].req)
    /\ task' = [task EXCEPT ![t].pc = "refreshErr", ![t].req = NoRequest,
                            ![t].err = WrapError(AxiosError(st))]
    /\ UNCHANGED <<widgets, store, now, issued, validRefresh, usedCodes>>

----------------------------------------------------------------------------
(* StravaService.getValidAccessToken *)

\* typeof x === 'string' ? x : null
StringOrNull(x) == IF IsString(x) THEN x ELSE Null
\* typeof x === 'number' ? x : 0
NumberOrZero(x) == IF IsNumber(x) THEN x.v ELSE 0

MissingTokens_AccessOnly(accessToken, refreshToken) == ~Truthy(accessToken)

\* line 100: no access token or no refresh token
MissingTokens(accessToken, refreshToken) ==
    ~Truthy(accessToken) \/ ~Truthy(refreshToken)

TokenStillValid_Inclusive(expiresAt, t) == expiresAt - Margin >= t
TokenStillValid_NoMargin(expiresAt, t) == expiresAt > t

\* line 107: the token is still valid, with the 5 minute buffer
TokenStillValid(expiresAt, t) == expiresAt - Margin > t

MissingClient_IdOnly(clientId, clientSecret) == ~Truthy(clientId)

\* line 113: no client id or no client secret
MissingClient(clientId, clientSecret) ==
    ~Truthy(clientId) \/ ~Truthy(clientSecret)

WithTokens_KeepsRefresh(settings, r) ==
    [settings EXCEPT !.accessToken = r.access_token,
                     !.expiresAt = r.expires_at]
WithTokens_KeepsExpiry(settings, r) ==
    [settings EXCEPT !.accessToken = r.access_token,
                     !.refreshToken = r.refresh_token]

\* { ...settings, accessToken, refreshToken, expiresAt } of a token response
WithTokens(settings, r) ==
    [settings EXCEPT !.accessToken = r.access_token,
                     !.refreshToken = r.refresh_token,
                     !.expiresAt = r.expires_at]

\* the request refreshAccessToken posts to the token endpoint
RefreshRequest(clientId, clientSecret, refreshToken) ==
    [clientId |-> clientId, clientSecret |-> clientSecret,
     grant |-> refreshToken]

Return(t, value) ==
    [task EXCEPT ![t].pc = "returned", ![t].result = value,
                 ![t].outcome = "returned"]

\* updateYearDisplay(actionId, settings) is called and getValidAccessToken
\* reads the global settings
StartUpdate(c, settings) ==
    [task EXCEPT ![c] = [IdleTask EXCEPT !.pc = "check", !.settings = store,
                                         !.widget = settings]]

\* a poll starts, with the settings of its key
GVT_Read(c) ==
    /\ task[c].pc = "idle"
    /\ CanStart
    /\ task' = StartUpdate(c, config[c])
    /\ UNCHANGED <<widgets, store, now, issued, validRefresh, usedCodes>>

\* lines 94-121: the presence checks, the expiry check, and the refresh call
GVT_Check(c) ==
    LET settings == task[c].settings
        accessToken == StringOrNull(settings.accessToken)
        refreshToken == StringOrNull(settings.refreshToken)
        clientId == StringOrNull(settings.clientId)
        clientSecret == StringOrNull(settings.clientSecret)
        expiresAt == NumberOrZero(settings.expiresAt)
    IN  /\ task[c].pc = "check"
        /\ IF MissingTokens(accessToken, refreshToken)
           THEN task' = Return(c, Null)
           ELSE IF TokenStillValid(expiresAt, now)
           THEN task' = [Return(c, accessToken) EXCEPT ![c].now = now]
           ELSE IF MissingClient(clientId, clientSecret)
           THEN task' = [Return(c, Null) EXCEPT ![c].now = now]
           ELSE task' = [task EXCEPT
                    ![c].pc = "refreshing",
                    ![c].now = now,
                    ![c].req = RefreshRequest(clientId, clientSecret,
                                              refreshToken)]
        /\ UNCHANGED <<widgets, store, now, issued, validRefresh, usedCodes>>

\* lines 123-131: the refresh succeeded; save the new tokens and return
GVT_Save(c) ==
    /\ c \in Trackers
    /\ task[c].pc = "refreshOk"
    /\ store' = WithTokens(task[c].settings, TokenResponse(task[c].resp))
    /\ task' = Return(c, TokenResponse(task[c].resp).access_token)
    /\ UNCHANGED <<widgets, now, issued, validRefresh, usedCodes>>

GVT_Catch_ClearsTokens(c) ==
    /\ c \in Trackers
    /\ task[c].pc = "refreshErr"
    /\ store' = [store EXCEPT !.accessToken = Undefined,
                              !.refreshToken = Undefined]
    /\ task' = Return(c, Null)
    /\ UNCHANGED <<widgets, now, issued, validRefresh, usedCodes>>
GVT_Catch_WritesBack(c) ==
    /\ c \in Trackers
    /\ task[c].pc = "refreshErr"
    /\ store' = task[c].settings
    /\ task' = Return(c, Null)
    /\ UNCHANGED <<widgets, now, issued, validRefresh, usedCodes>>

GVT_Catch_Retries(c) ==
    /\ c \in Trackers
    /\ task[c].pc = "refreshErr"
    /\ task' = [task EXCEPT
            ![c].pc = "refreshing",
            ![c].err = NoError,
            ![c].req = RefreshRequest(task[c].settings.clientId,
                                      task[c].settings.clientSecret,
                                      task[c].settings.refreshToken)]
    /\ UNCHANGED <<widgets, store, now, issued, validRefresh, usedCodes>>

\* lines 132-135: refreshAccessToken threw; log and return null
GVT_Catch(c) ==
    /\ c \in Trackers
    /\ task[c].pc = "refreshErr"
    /\ task' = Return(c, Null)
    /\ UNCHANGED <<widgets, store, now, issued, validRefresh, usedCodes>>

----------------------------------------------------------------------------
(* The trackers' polls: updateYearDisplay, updateMonthDisplay *)

\* the awaited Strava API calls of one poll: the year tracker fetches the
\* athlete and then the stats, the month tracker fetches the activities
ApiCalls(c) == IF c \in YearViews THEN 2 ELSE 1

\* upstream accepts an access token it issued and that has not expired
AccessAccepted(token) ==
    \E n \in 1..Len(issued) : token = AccessTok(n) /\ issued[n] > now

\* the title of the catch block
ErrorTitle(error) ==
    IF Is429(error) THEN "Rate Limit Wait 30m" ELSE "Error Check Token"

\* const action = getActionById(actionId); if (action) await action.setTitle:
\* the title a poll sets on its key, none once the key has left the device
SetTitle(c, title) == IF c \in shown THEN title ELSE "none"

\* settings.displayMode || "distance"
DisplayMode(settings) ==
    IF Truthy(settings.displayMode) THEN settings.displayMode ELSE ModeDistance

\* settings.goal ? parseFloat(settings.goal.toString()) : undefined
Goal(settings) ==
    IF Truthy(settings.goal) THEN ParseFloat(settings.goal) ELSE Undefined

\* goal && currentValue >= goal, where the switch on the display mode sets
\* currentValue (distance / 1000 for the distance) and leaves it 0 for a mode
\* it does not know
GoalReached(settings, ytdData) ==
    LET goal == Goal(settings)
        displayMode == DisplayMode(settings)
    IN  /\ Truthy(goal)
        /\ CASE displayMode = ModeDistance ->
                    ytdData.distance >= goal.v * 1000
              [] displayMode = ModeTime -> ytdData.moving_time >= goal.v
              [] displayMode = ModeCount -> ytdData.count >= goal.v
              [] displayMode = ModeElevation ->
                    ytdData.elevation_gain >= goal.v
              [] OTHER -> 0 >= goal.v

\* if (action) await action.setImage(name): the images of the keys after a
\* poll of key c has set its image, unchanged once the key has left
SetImage(c, name) == IF c \in shown THEN [image EXCEPT ![c] = name] ELSE image

\* what a poll leaves alone of the keys when it sets an image
KeysKept ==
    <<shown, appearing, refreshInterval, refreshIntervals, timers, created,
      config, totals, time, wakeup>>

Poll_AfterToken_NoCheck(c) ==
    /\ c \in Trackers
    /\ task[c].pc = "returned"
    /\ task' = [task EXCEPT ![c] = [IdleTask EXCEPT
                    !.pc = "api", !.result = task[c].result,
                    !.calls = ApiCalls(c), !.widget = task[c].widget]]
    /\ UNCHANGED <<widgets, store, now, issued, validRefresh, usedCodes>>

\* getValidAccessToken returned: without a token show the setup label and
\* stop, else create the service and call the API
Poll_AfterToken(c) ==
    /\ c \in Trackers
    /\ task[c].pc = "returned"
    /\ IF ~Truthy(task[c].result)
       THEN task' = [task EXCEPT ![c] = [IdleTask EXCEPT
                        !.pc = "done",
                        !.widget = task[c].widget,
                        !.title = SetTitle(c, "Setup OAuth First")]]
       ELSE task' = [task EXCEPT ![c] = [IdleTask EXCEPT
                        !.pc = "api", !.result = task[c].result,
                        !.calls = ApiCalls(c), !.widget = task[c].widget]]
    /\ UNCHANGED <<widgets, store, now, issued, validRefresh, usedCodes>>

\* an API call answers; after the last one the data label is shown, on the
\* goal-reached background or the default one
Poll_ApiOk(c) ==
    /\ c \in Trackers
    /\ task[c].pc = "api"
    /\ AccessAccepted(task[c].result)
    /\ IF task[c].calls > 1
       THEN /\ task' = [task EXCEPT ![c].calls = @ - 1]
            /\ UNCHANGED image
       ELSE /\ task' = [task EXCEPT ![c] = [IdleTask EXCEPT
                        !.pc = "done", !.widget = task[c].widget,
                        !.title = SetTitle(c, "data")]]
            /\ image' = SetImage(c, IF GoalReached(task[c].widget, totals)
                                    THEN "goal" ELSE "background")
    /\ UNCHANGED <<KeysKept, store, now, issued, validRefresh, usedCodes>>

Poll_ApiFail_Propagates(c, st) ==
    /\ c \in Trackers
    /\ task[c].pc = "api"
    /\ \/ st \in AnyTimeFailures
       \/ st = 401 /\ ~AccessAccepted(task[c].result)
    /\ task' = [task EXCEPT ![c] = [IdleTask EXCEPT
            !.pc = "threw",
            !.outcome = "threw",
            !.err = WrapError(AxiosError(st))]]
    /\ UNCHANGED <<widgets, store, now, issued, validRefresh, usedCodes>>

\* an API call fails; the service wraps the error and the catch block of the
\* tracker picks the label
Poll_ApiFail(c, st) ==
    /\ c \in Trackers
    /\ task[c].pc = "api"
    /\ \/ st \in AnyTimeFailures
       \/ st = 401 /\ ~AccessAccepted(task[c].result)
    /\ task' = [task EXCEPT ![c] = [IdleTask EXCEPT
            !.pc = "done",
            !.widget = task[c].widget,
            !.err = WrapError(AxiosError(st)),
            !.title = SetTitle(c, ErrorTitle(WrapError(AxiosError(st))))]]
    /\ image' = SetImage(c, "background")
    /\ UNCHANGED <<KeysKept, store, now, issued, validRefresh, usedCodes>>

\* an API call fails before any response: the connection to the peer is
\* refused or times out; the service wraps the error and the catch block
\* picks the label as for any other error
Poll_ConnectFail(c, n) ==
    /\ c \in Trackers
    /\ task[c].pc = "api"
    /\ task' = [task EXCEPT ![c] = [IdleTask EXCEPT
            !.pc = "done",
            !.widget = task[c].widget,
            !.err = WrapError(ConnectError(n)),
            !.title = SetTitle(c, ErrorTitle(WrapError(ConnectError(n))))]]
    /\ image' = SetImage(c, "background")
    /\ UNCHANGED <<KeysKept, store, now, issued, validRefresh, usedCodes>>

----------------------------------------------------------------------------
(* formatTime *)

\* Number.prototype.toString of a non-negative integer, one character each
DigitChars == <<"0", "1", "2", "3", "4", "5", "6", "7", "8", "9">>
NumberToString(n) == [i \in 1..Len(Digits(n)) |-> DigitChars[Digits(n)[i] + 1]]

\* String.prototype.padStart(maxLength, fillString) with a fill of one
\* character
RECURSIVE PadStart(_, _, _)
PadStart(str, maxLength, fillString) ==
    IF Len(str) >= maxLength
    THEN str
    ELSE PadStart(<<fillString>> \o str, maxLength, fillString)

FormatTime_SecsUnpadded(seconds) ==
    LET hours == seconds \div 3600
        minutes == (seconds % 3600) \div 60
        secs == seconds % 60
    IN  IF hours > 0
        THEN NumberToString(hours) \o <<":">> \o PadStart(NumberToString(minutes), 2, "0")
                \o <<":">> \o NumberToString(secs)
        ELSE NumberToString(minutes) \o <<":">> \o NumberToString(secs)

\* StravaService.formatTime: the text as a sequence of characters
FormatTime(seconds) ==
    LET hours == seconds \div 3600
        minutes == (seconds % 3600) \div 60
        secs == seconds % 60
    IN  IF hours > 0
        THEN NumberToString(hours) \o <<":">> \o PadStart(NumberToString(minutes), 2, "0")
                \o <<":">> \o PadStart(NumberToString(secs), 2, "0")
        ELSE NumberToString(minutes) \o <<":">> \o PadStart(NumberToString(secs), 2, "0")

\* const time = StravaService.formatTime(ytdData.moving_time)
ShowTime ==
    /\ time = NoTime
    /\ time' = FormatTime(totals.moving_time)
    /\ UNCHANGED <<store, now, issued, validRefresh, usedCodes, task, shown,
                   appearing, refreshInterval, refreshIntervals, timers,
                   created, config, image, totals, wakeup>>

----------------------------------------------------------------------------
(* Upstream token endpoint, as reached through exchangeAuthorizationCode *)

Codes == {AuthCode(k) : k \in 1..MaxCodes}

ExchangeAccepted(req) ==
    /\ req.grant \in Codes \ usedCodes
    /\ req.clientId = GoodId
    /\ req.clientSecret = GoodSecret

\* upstream consumes the code and answers with the first bundle of a new grant
UpstreamExchangeOk(t) ==
    /\ task[t].pc = "exchanging"
    /\ ExchangeAccepted(task[t].req)
    /\ Len(issued) < MaxResp
    /\ \E ttl \in TTLs : issued' = Append(issued, now + ttl)
    /\ validRefresh' = Len(issued) + 1
    /\ usedCodes' = usedCodes \cup {task[t].req.grant}
    /\ task' = [task EXCEPT ![t].pc = "exchangeOk", ![t].req = NoRequest,
                            ![t].resp = Len(issued) + 1]
    /\ UNCHANGED <<widgets, store, now>>

UpstreamExchangeFail(t, st) ==
    /\ task[t].pc = "exchanging"
    /\ \/ st \in AnyTimeFailures
       \/ st = RejectedStatus /\ ~ExchangeAccepted(task[t].req)
    /\ task' = [task EXCEPT ![t].pc = "exchangeErr", ![t].req = NoRequest,
                            ![t].err = WrapError(AxiosError(st))]
    /\ UNCHANGED <<widgets, store, now, issued, validRefresh, usedCodes>>

----------------------------------------------------------------------------
(* The OAuth setup action *)

\* typeof x === 'string' ? x : ''
StringOrEmpty(x) == IF IsString(x) THEN x ELSE Str(0)

DisplayTitle_Inclusive(globalSettings, t) ==
    IF Truthy(globalSettings.accessToken) /\ Truthy(globalSettings.refreshToken)
    THEN IF NumberOrZero(globalSettings.expiresAt) >= t
         THEN "Connected"
         ELSE "Token Expired"
    ELSE IF Truthy(globalSettings.clientId) /\ Truthy(globalSettings.clientSecret)
         THEN "Ready to Auth"
         ELSE "Not Configured"

\* the title updateDisplay computes from the global settings
DisplayTitle(globalSettings, t) ==
    IF Truthy(globalSettings.accessToken) /\ Truthy(globalSettings.refreshToken)
    THEN IF NumberOrZero(globalSettings.expiresAt) > t
         THEN "Connected"
         ELSE "Token Expired"
    ELSE IF Truthy(globalSettings.clientId) /\ Truthy(globalSettings.clientSecret)
         THEN "Ready to Auth"
         ELSE "Not Configured"

\* { ...globalSettings, clientId, clientSecret } of the settings event
WithClient(globalSettings, settings) ==
    [globalSettings EXCEPT !.clientId = settings.clientId,
                           !.clientSecret = settings.clientSecret]

WithExchange_KeepsClient(currentSettings, clientId, clientSecret, r) ==
    [currentSettings EXCEPT !.accessToken = r.access_token,
                            !.refreshToken = r.refresh_token,
                            !.expiresAt = r.expires_at,
                            !.athleteId = r.athlete]

\* the record exchangeToken saves
WithExchange(currentSettings, clientId, clientSecret, r) ==
    [currentSettings EXCEPT !.clientId = clientId,
                            !.clientSecret = clientSecret,
                            !.accessToken = r.access_token,
                            !.refreshToken = r.refresh_token,
                            !.expiresAt = r.expires_at,
                            !.athleteId = r.athlete]

\* the request exchangeAuthorizationCode posts to the token endpoint
ExchangeRequest(clientId, clientSecret, authCode) ==
    [clientId |-> clientId, clientSecret |-> clientSecret, grant |-> authCode]

\* the settings the property inspector sends
SettingsPayloads ==
    {p \in [clientId : {Undefined, GoodId},
            clientSecret : {Undefined, GoodSecret},
            authCode : {Undefined} \cup Codes] :
        Truthy(p.clientId) => Truthy(p.clientSecret)}
\* the exchangeToken messages the property inspector sends
PluginPayloads ==
    [clientId : {GoodId}, clientSecret : {GoodSecret}, authCode : Codes]

\* the arguments exchangeToken is called with: by onDidReceiveSettings the
\* strings of lines 49-51, by onSendToPlugin the fields of the message
ExchangeArgs(t, payload) ==
    IF t \in SettingsTasks
    THEN ExchangeRequest(StringOrEmpty(payload.clientId),
                         StringOrEmpty(payload.clientSecret),
                         StringOrEmpty(payload.authCode))
    ELSE ExchangeRequest(payload.clientId, payload.clientSecret,
                         payload.authCode)

\* lines 48-59 of onDidReceiveSettings, up to the read of the global settings
\* that guards the exchange
AfterSync(settings) ==
    LET authCode == StringOrEmpty(settings.authCode)
        clientId == StringOrEmpty(settings.clientId)
        clientSecret == StringOrEmpty(settings.clientSecret)
    IN  IF authCode # Str(0) /\ Truthy(clientId) /\ Truthy(clientSecret)
        THEN "guard"
        ELSE "display"

\* the property inspector sends its next event (settings or message) once the
\* handler of its previous one has returned
InspectorQuiet == task["settings"].pc = "idle" /\ task["plugin"].pc = "idle"

\* onDidReceiveSettings is called with the settings of the property inspector
S_Receive(settings) ==
    /\ task["settings"].pc = "idle"
    /\ InspectorQuiet
    /\ CanStart
    /\ task' = [task EXCEPT !["settings"] =
            [IdleTask EXCEPT
                !.ev = IF Truthy(settings.clientId) \/ Truthy(settings.clientSecret)
                       THEN settings
                       ELSE NoPayload,
                !.pc = IF Truthy(settings.clientId) \/ Truthy(settings.clientSecret)
                       THEN "syncRead"
                       ELSE AfterSync(settings)]]
    /\ UNCHANGED <<widgets, store, now, issued, validRefresh, usedCodes>>

\* onDidReceiveSettings is called again while the handler of the previous
\* settings event is suspended at an await
S_ReceiveNext(settings) ==
    /\ task["settings"].pc # "idle"
    /\ task["settings2"].pc = "idle"
    /\ task' = [task EXCEPT !["settings2"] =
            [IdleTask EXCEPT
                !.ev = IF Truthy(settings.clientId) \/ Truthy(settings.clientSecret)
                       THEN settings
                       ELSE NoPayload,
                !.pc = IF Truthy(settings.clientId) \/ Truthy(settings.clientSecret)
                       THEN "syncRead"
                       ELSE AfterSync(settings)]]
    /\ UNCHANGED <<widgets, store, now, issued, validRefresh, usedCodes>>

\* line 40: read the global settings
S_SyncRead(t) ==
    /\ t \in SettingsTasks
    /\ task[t].pc = "syncRead"
    /\ task' = [task EXCEPT ![t].pc = "syncWrite",
                            ![t].settings = store]
    /\ UNCHANGED <<widgets, store, now, issued, validRefresh, usedCodes>>

\* lines 41-45: write them back with the client id and secret of the event;
\* the record read at line 40 is remembered while an exchange may follow
S_SyncWrite(t) ==
    /\ t \in SettingsTasks
    /\ task[t].pc = "syncWrite"
    /\ store' = WithClient(task[t].settings, task[t].ev)
    /\ task' = [task EXCEPT
            ![t].pc = AfterSync(task[t].ev),
            ![t].ev =
                IF AfterSync(task[t].ev) = "guard" THEN @ ELSE NoPayload,
            ![t].settings =
                IF AfterSync(task[t].ev) = "guard" THEN @ ELSE EmptyStore]
    /\ UNCHANGED <<widgets, now, issued, validRefresh, usedCodes>>

\* lines 55-58: exchange the code unless an access token is stored
S_Guard(t) ==
    LET settings == task[t].ev
    IN  /\ t \in SettingsTasks
        /\ task[t].pc = "guard"
        /\ IF ~Truthy(store.accessToken)
           THEN task' = [task EXCEPT
                    ![t].pc = "exchanging",
                    ![t].req = ExchangeArgs(t, settings)]
           ELSE task' = [task EXCEPT ![t].pc = "display",
                                    ![t].ev = NoPayload,
                                    ![t].settings = EmptyStore]
        /\ UNCHANGED <<widgets, store, now, issued, validRefresh, usedCodes>>

\* onSendToPlugin with an exchangeToken message
P_Receive(payload) ==
    /\ task["plugin"].pc = "idle"
    /\ InspectorQuiet
    /\ CanStart
    /\ task' = [task EXCEPT !["plugin"] =
            [IdleTask EXCEPT
                !.ev = payload,
                !.pc = "exchanging",
                !.req = ExchangeArgs("plugin", payload)]]
    /\ UNCHANGED <<widgets, store, now, issued, validRefresh, usedCodes>>

\* exchangeToken, line 152: the exchange succeeded; read the global settings
X_Read(t) ==
    /\ t \in SettingsTasks \cup {"plugin"}
    /\ task[t].pc = "exchangeOk"
    /\ task' = [task EXCEPT ![t].pc = "xWrite", ![t].settings = store]
    /\ UNCHANGED <<widgets, store, now, issued, validRefresh, usedCodes>>

\* exchangeToken, lines 153-161: save the bundle to the global settings
X_Write(t) ==
    /\ t \in SettingsTasks \cup {"plugin"}
    /\ task[t].pc = "xWrite"
    /\ store' = WithExchange(task[t].settings,
                             ExchangeArgs(t, task[t].ev).clientId,
                             ExchangeArgs(t, task[t].ev).clientSecret,
                             TokenResponse(task[t].resp))
    /\ task' = [task EXCEPT ![t].pc = "validate", ![t].ev = NoPayload,
                            ![t].settings = EmptyStore]
    /\ UNCHANGED <<widgets, now, issued, validRefresh, usedCodes>>

X_Catch_ClearsClient(t) ==
    /\ t \in SettingsTasks \cup {"plugin"}
    /\ task[t].pc = "exchangeErr"
    /\ store' = [store EXCEPT !.clientId = Undefined,
                              !.clientSecret = Undefined]
    /\ task' = [task EXCEPT ![t].shown = "alert",
                            ![t].settings = EmptyStore,
                            ![t].ev = NoPayload,
                            ![t].err = NoError,
                            ![t].pc = IF t \in SettingsTasks THEN "display" ELSE "done"]
    /\ UNCHANGED <<widgets, now, issued, validRefresh, usedCodes>>

\* exchangeToken, lines 189-197: the exchange failed; show the alert
X_Catch(t) ==
    /\ t \in SettingsTasks \cup {"plugin"}
    /\ task[t].pc = "exchangeErr"
    /\ task' = [task EXCEPT ![t].shown = "alert",
                            ![t].settings = EmptyStore,
                            ![t].ev = NoPayload,
                            ![t].err = NoError,
                            ![t].pc = IF t \in SettingsTasks THEN "display" ELSE "done"]
    /\ UNCHANGED <<widgets, store, now, issued, validRefresh, usedCodes>>

K_Read_ChecksExpiry ==
    LET globalSettings == store
        clientId == StringOrEmpty(globalSettings.clientId)
        clientSecret == StringOrEmpty(globalSettings.clientSecret)
        refreshToken == StringOrEmpty(globalSettings.refreshToken)
    IN  /\ task["key"].pc = "idle"
        /\ CanStart
        /\ IF /\ Truthy(globalSettings.refreshToken)
              /\ Truthy(clientId) /\ Truthy(clientSecret) /\ Truthy(refreshToken)
              /\ ~TokenStillValid(NumberOrZero(globalSettings.expiresAt), now)
           THEN task' = [task EXCEPT !["key"] =
                    [IdleTask EXCEPT
                        !.pc = "refreshing",
                        !.settings = globalSettings,
                        !.req = RefreshRequest(clientId, clientSecret,
                                               refreshToken)]]
           ELSE task' = [task EXCEPT !["key"] =
                    [IdleTask EXCEPT !.pc = "display"]]
        /\ UNCHANGED <<widgets, store, now, issued, validRefresh, usedCodes>>

\* onKeyDown, lines 66-80: read the global settings and force a refresh
K_Read ==
    LET globalSettings == store
        clientId == StringOrEmpty(globalSettings.clientId)
        clientSecret == StringOrEmpty(globalSettings.clientSecret)
        refreshToken == StringOrEmpty(globalSettings.refreshToken)
    IN  /\ task["key"].pc = "idle"
        /\ CanStart
        /\ IF /\ Truthy(globalSettings.refreshToken)
              /\ Truthy(clientId) /\ Truthy(clientSecret) /\ Truthy(refreshToken)
           THEN task' = [task EXCEPT !["key"] =
                    [IdleTask EXCEPT
                        !.pc = "refreshing",
                        !.settings = globalSettings,
                        !.req = RefreshRequest(clientId, clientSecret,
                                               refreshToken)]]
           ELSE task' = [task EXCEPT !["key"] =
                    [IdleTask EXCEPT !.pc = "display"]]
        /\ UNCHANGED <<widgets, store, now, issued, validRefresh, usedCodes>>

\* onKeyDown, lines 82-88: the refresh succeeded; save the new tokens
K_Save ==
    /\ task["key"].pc = "refreshOk"
    /\ store' = WithTokens(task["key"].settings, TokenResponse(task["key"].resp))
    /\ task' = [task EXCEPT !["key"].pc = "validate",
                            !["key"].settings = EmptyStore]
    /\ UNCHANGED <<widgets, now, issued, validRefresh, usedCodes>>

\* onKeyDown, lines 112-120: the refresh failed; show the alert
K_Catch ==
    /\ task["key"].pc = "refreshErr"
    /\ task' = [task EXCEPT !["key"].pc = "display", !["key"].shown = "alert",
                            !["key"].err = NoError,
                            !["key"].settings = EmptyStore]
    /\ UNCHANGED <<widgets, store, now, issued, validRefresh, usedCodes>>

\* validateApiConnection: one profile fetch with the new access token; the
\* key handler shows its feedback right after, exchangeToken after the display
Validate(t, ok) ==
    /\ t \in SetupTasks
    /\ task[t].pc = "validate"
    /\ ok => AccessAccepted(TokenResponse(task[t].resp).access_token)
    /\ IF t = "key"
       THEN task' = [task EXCEPT ![t].pc = "display", ![t].resp = 0,
                                 ![t].shown = IF ok THEN "ok" ELSE "alert"]
       ELSE task' = [task EXCEPT ![t].pc = "xDisplay", ![t].resp = 0,
                                 ![t].isValid = ok]
    /\ UNCHANGED <<widgets, store, now, issued, validRefresh, usedCodes>>

\* updateDisplay, line 220: read the global settings
D_Read(t) ==
    /\ t \in SetupTasks
    /\ task[t].pc \in {"display", "xDisplay"}
    /\ task' = [task EXCEPT
            ![t].pc = IF @ = "display" THEN "displaySet" ELSE "xDisplaySet",
            ![t].settings = store]
    /\ UNCHANGED <<widgets, store, now, issued, validRefresh, usedCodes>>

\* updateDisplay, lines 222-242: set the title; inside exchangeToken the
\* feedback of lines 182-188 follows, and onDidReceiveSettings then updates
\* the display once more
D_Set(t) ==
    /\ t \in SetupTasks
    /\ task[t].pc \in {"displaySet", "xDisplaySet"}
    /\ IF task[t].pc = "xDisplaySet"
       THEN task' = [task EXCEPT
                ![t].title = DisplayTitle(task[t].settings, now),
                ![t].settings = EmptyStore,
                ![t].shown = IF task[t].isValid THEN "ok" ELSE "alert",
                ![t].isValid = FALSE,
                ![t].pc = IF t \in SettingsTasks THEN "display" ELSE "done"]
       ELSE task' = [task EXCEPT
                ![t].title = DisplayTitle(task[t].settings, now),
                ![t].settings = EmptyStore,
                ![t].pc = "done"]
    /\ UNCHANGED <<widgets, store, now, issued, validRefresh, usedCodes>>

\* the handler returns
H_Return(t) ==
    /\ task[t].pc = "done"
    /\ t \notin appearing
    /\ task' = [task EXCEPT ![t] = IdleTask]
    /\ UNCHANGED <<widgets, store, now, issued, validRefresh, usedCodes>>

----------------------------------------------------------------------------
(* The trackers' keys and timers: onWillAppear, onWillDisappear, setInterval *)

\* the timer setInterval returns: its id and the action id its callback polls
Timer(n, i, settings) == [id |-> n, action |-> i, settings |-> settings]

\* clearInterval(id): the timer with that id is no longer active
ClearInterval(n) == {k \in timers : k.id # n}

\* the handle under which the tracker of key i keeps its timer
Handle(i) == IF i \in YearViews THEN refreshInterval ELSE refreshIntervals[i]

\* this.refreshInterval = id, or this.refreshIntervals.set(actionId, id)
SetHandle(i, n) ==
    IF i \in YearViews
    THEN /\ refreshInterval' = n
         /\ UNCHANGED refreshIntervals
    ELSE /\ refreshIntervals' = [refreshIntervals EXCEPT ![i] = n]
         /\ UNCHANGED refreshInterval

\* onWillAppear, up to its await: the timer of the handle is cleared, the
\* handle keeps its id, and the first update starts
W_Appear(i) ==
    /\ i \in Views \ shown
    /\ task[i].pc = "idle"
    /\ CanStart
    /\ created + Cardinality(appearing) < MaxTimers
    /\ shown' = shown \cup {i}
    /\ appearing' = appearing \cup {i}
    /\ timers' = ClearInterval(Handle(i))
    /\ task' = StartUpdate(i, config[i])
    /\ UNCHANGED <<store, now, issued, validRefresh, usedCodes,
                   refreshInterval, refreshIntervals, created,
                   config, image, totals, time, wakeup>>

\* onWillAppear, after its await: the first update is done; a timer is
\* created and the handle is set to it
W_AppearDone(i) ==
    /\ i \in appearing
    /\ task[i].pc = "done"
    /\ appearing' = appearing \ {i}
    /\ created' = created + 1
    /\ timers' = timers \cup {Timer(created + 1, i, task[i].widget)}
    /\ SetHandle(i, created + 1)
    /\ task' = [task EXCEPT ![i] = IdleTask]
    /\ UNCHANGED <<store, now, issued, validRefresh, usedCodes, shown,
                   config, image, totals, time, wakeup>>

\* onWillDisappear: the timer of the handle is cleared and the handle reset
W_Disappear(i) ==
    /\ i \in Views \cap shown
    /\ shown' = shown \ {i}
    /\ timers' = ClearInterval(Handle(i))
    /\ SetHandle(i, 0)
    /\ UNCHANGED <<store, now, issued, validRefresh, usedCodes, task,
                   appearing, created, config, image, totals, time, wakeup>>

\* an active timer fires: its callback starts an update of its key, with the
\* settings of the onWillAppear that created it
T_Fire(k) ==
    /\ k \in timers
    /\ task[k.action].pc = "idle"
    /\ CanStart
    /\ task' = StartUpdate(k.action, k.settings)
    /\ UNCHANGED <<widgets, store, now, issued, validRefresh, usedCodes>>

\* the settings a user gives a tracker key in the property inspector
KeySettings ==
    {NoSettings, [displayMode |-> ModeCount, goal |-> Num(2)]}

\* onDidReceiveSettings of a tracker: the property inspector changed the
\* settings of key i, and the key is updated with them
W_Settings(i, settings) ==
    /\ i \in Views \cap shown
    /\ task[i].pc = "idle"
    /\ CanStart
    /\ config' = [config EXCEPT ![i] = settings]
    /\ task' = StartUpdate(i, settings)
    /\ UNCHANGED <<store, now, issued, validRefresh, usedCodes, shown,
                   appearing, refreshInterval, refreshIntervals, timers,
                   created, image, totals, time, wakeup>>

----------------------------------------------------------------------------

NextPolls ==
    \/ Tick
    \/ \E c \in Polls : GVT_Read(c)
    \/ \E c \in Polls : GVT_Check(c)
    \/ \E c \in Polls : UpstreamRefreshOk(c)
    \/ \E c \in Polls, st \in AnyTimeFailures \cup {RejectedStatus} :
            UpstreamRefreshFail(c, st)
    \/ \E c \in Polls : GVT_Save(c)
    \/ \E c \in Polls : GVT_Catch(c)
    \/ \E c \in Polls : Poll_AfterToken(c)
    \/ \E c \in Polls : Poll_ApiOk(c)
    \/ \E c \in Polls, st \in AnyTimeFailures \cup {401} : Poll_ApiFail(c, st)
    \/ \E c \in Polls : H_Return(c)

\* the credentials a previous session may have left in the global settings
StoredRecords ==
    [clientId : {Undefined, Str(0), GoodId},
     clientSecret : {Undefined, GoodSecret},
     accessToken : {Undefined, Str(0), Num(5), AccessTok(1)},
     refreshToken : {Undefined, Str(0), RefreshTok(1)},
     expiresAt : {Undefined, Str(1), Num(Margin), Num(Margin + 1),
                  Num(Margin + 2)},
     athleteId : {AthleteId}]

\* the trackers alone, started on any stored record
InitStored ==
    /\ store \in StoredRecords
    /\ now = 0
    /\ issued = <<Margin + 2>>
    /\ validRefresh = 1
    /\ usedCodes = {AuthCode(1)}
    /\ task = [t \in Tasks |-> IdleTask]
    /\ WidgetsShown

SpecStored == InitStored /\ [][NextPolls]_vars

\* the numbers a peer address can show in the message of a connection
\* failure: the HTTPS port, and a group of an address that happens to hold
\* the digits 429
PeerNumbers == {443, 2429}

\* the trackers alone, with API calls that also fail at connection level
NextClassify ==
    \/ NextPolls
    \/ \E c \in Polls, n \in PeerNumbers : Poll_ConnectFail(c, n)

SpecClassify == InitStored /\ [][NextClassify]_vars

\* the next step of a poll in flight: a continuation of the poll, or the
\* answer or failure of the network call it awaits
PollStep(c) ==
    \/ GVT_Check(c)
    \/ UpstreamRefreshOk(c)
    \/ \E st \in AnyTimeFailures \cup {RejectedStatus} :
            UpstreamRefreshFail(c, st)
    \/ GVT_Save(c)
    \/ GVT_Catch(c)
    \/ Poll_AfterToken(c)
    \/ Poll_ApiOk(c)
    \/ \E st \in AnyTimeFailures \cup {401} : Poll_ApiFail(c, st)

\* the event loop runs every continuation that is ready, and every network
\* call returns or fails
SpecStoredFair == SpecStored /\ \A c \in Polls : WF_vars(PollStep(c))

\* the store of an authenticated installation whose access token stays valid
Authenticated ==
    [clientId |-> GoodId, clientSecret |-> GoodSecret,
     accessToken |-> AccessTok(1), refreshToken |-> RefreshTok(1),
     expiresAt |-> Num(Margin + 2), athleteId |-> AthleteId]

\* formatTime alone, on every moving time upstream can report up to the bound
InitFormat ==
    /\ store = Authenticated
    /\ now = 0
    /\ issued = <<Margin + 2>>
    /\ validRefresh = 1
    /\ usedCodes = {AuthCode(1)}
    /\ shown = Polls
    /\ appearing = {}
    /\ refreshInterval = 0
    /\ refreshIntervals = [i \in WeekViews |-> 0]
    /\ timers = {}
    /\ created = 0
    /\ task = [t \in Tasks |-> IdleTask]
    /\ config = [c \in Trackers |-> NoSettings]
    /\ KeysFresh
    /\ \E seconds \in 0..MaxSeconds :
            totals = [FirstTotals EXCEPT !.moving_time = seconds]

NextFormat == ShowTime

SpecFormat == InitFormat /\ [][NextFormat]_vars

\* no key is on the device yet
InitTimers ==
    /\ store = Authenticated
    /\ now = 0
    /\ issued = <<Margin + 2>>
    /\ validRefresh = 1
    /\ usedCodes = {AuthCode(1)}
    /\ task = [t \in Tasks |-> IdleTask]
    /\ shown = {}
    /\ appearing = {}
    /\ refreshInterval = 0
    /\ refreshIntervals = [i \in WeekViews |-> 0]
    /\ timers = {}
    /\ created = 0
    /\ KeysFresh
    /\ KeysPlain

\* the keys appear and disappear, and their timers fire
NextTimers ==
    \/ \E i \in Views : W_Appear(i)
    \/ \E i \in Views : W_AppearDone(i)
    \/ \E i \in Views : W_Disappear(i)
    \/ \E k \in timers : T_Fire(k)
    \/ \E c \in Views : GVT_Check(c)
    \/ \E c \in Views : Poll_AfterToken(c)
    \/ \E c \in Views : Poll_ApiOk(c)
    \/ \E c \in Views, st \in AnyTimeFailures : Poll_ApiFail(c, st)
    \/ \E c \in Views : H_Return(c)

SpecTimers == InitTimers /\ [][NextTimers]_vars

\* the records a previous session may have left when the setup key is used
SetupRecords ==
    [clientId : {Undefined, GoodId},
     clientSecret : {Undefined, GoodSecret},
     accessToken : {Undefined, AccessTok(1)},
     refreshToken : {Undefined, Str(0), RefreshTok(1)},
     expiresAt : {Undefined, Num(0), Num(1), Num(Margin + 2)},
     athleteId : {AthleteId}]

\* the setup action alone, on any stored record: its key is pressed, and the
\* property inspector sends settings events and exchangeToken messages
InitSetup ==
    /\ store \in SetupRecords
    /\ now = 0
    /\ issued = <<Margin + 2>>
    /\ validRefresh = 1
    /\ usedCodes = {}
    /\ task = [t \in Tasks |-> IdleTask]
    /\ WidgetsShown

SetupHandlers == {"settings", "key", "plugin"}

NextSetup ==
    \/ Tick
    \/ K_Read
    \/ UpstreamRefreshOk("key")
    \/ \E st \in AnyTimeFailures \cup {RejectedStatus} :
            UpstreamRefreshFail("key", st)
    \/ K_Save
    \/ K_Catch
    \/ \E payload \in PluginPayloads : P_Receive(payload)
    \/ \E settings \in SettingsPayloads : S_Receive(settings)
    \/ S_SyncRead("settings")
    \/ S_SyncWrite("settings")
    \/ S_Guard("settings")
    \/ \E t \in SetupHandlers : UpstreamExchangeOk(t)
    \/ \E t \in SetupHandlers, st \in AnyTimeFailures \cup {RejectedStatus} :
            UpstreamExchangeFail(t, st)
    \/ \E t \in SetupHandlers : X_Read(t)
    \/ \E t \in SetupHandlers : X_Write(t)
    \/ \E t \in SetupHandlers : X_Catch(t)
    \/ \E t \in SetupHandlers, ok \in BOOLEAN : Validate(t, ok)
    \/ \E t \in SetupHandlers : D_Read(t)
    \/ \E t \in SetupHandlers : D_Set(t)
    \/ \E t \in SetupHandlers : H_Return(t)

SpecSetup == InitSetup /\ [][NextSetup]_vars

\* the keys whose settings the user changes
ConfigViews == {"year", "week"}

\* the keys appear and disappear, their timers fire, and the user changes
\* their settings in the property inspector
NextConfig ==
    \/ \E i \in ConfigViews : W_Appear(i)
    \/ \E i \in ConfigViews : W_AppearDone(i)
    \/ \E i \in ConfigViews : W_Disappear(i)
    \/ \E i \in ConfigViews, settings \in KeySettings : W_Settings(i, settings)
    \/ \E k \in timers : T_Fire(k)
    \/ \E c \in ConfigViews : GVT_Check(c)
    \/ \E c \in ConfigViews : Poll_AfterToken(c)
    \/ \E c \in ConfigViews : Poll_ApiOk(c)
    \/ \E c \in ConfigViews, st \in AnyTimeFailures : Poll_ApiFail(c, st)
    \/ \E c \in ConfigViews : H_Return(c)

SpecConfig == InitTimers /\ [][NextConfig]_vars

\* the display mode and goal a key may have been given
GoalSettings ==
    [displayMode : {Undefined, ModeTime, ModeOther},
     goal : {Undefined, Num(2), Text(2), Text(0), NotNumeric}]

\* the trackers alone, their keys configured with a goal; the stored access
\* token is valid now and has to be refreshed a second later
InitGoal ==
    /\ store = [Authenticated EXCEPT !.expiresAt = Num(Margin + 1)]
    /\ now = 0
    /\ issued = <<Margin + 1>>
    /\ validRefresh = 1
    /\ usedCodes = {AuthCode(1)}
    /\ task = [t \in Tasks |-> IdleTask]
    /\ shown = Polls
    /\ appearing = {}
    /\ refreshInterval = 0
    /\ refreshIntervals = [i \in WeekViews |-> 0]
    /\ timers = {}
    /\ created = 0
    /\ KeysFresh
    /\ \E settings \in GoalSettings : config = [c \in Trackers |-> settings]
    /\ totals \in {FirstTotals, NextTotals}

SpecGoal == InitGoal /\ [][NextPolls]_vars

\* onSystemDidWakeUp: the handler starts its loop over streamDeck.actions, the
\* keys on the device, with or without the key of the setup action
Wake_Start(visible) ==
    /\ wakeup.pc = "idle"
    /\ InFlight = {}
    /\ wakeup' = [NoWake EXCEPT !.pc = "loop", !.todo = shown \cup visible]
    /\ UNCHANGED <<store, now, issued, validRefresh, usedCodes, task, shown,
                   appearing, refreshInterval, refreshIntervals, timers,
                   created, config, image, totals, time>>

Wake_Next_NoAwait(a) ==
    /\ wakeup.pc = "loop"
    /\ a \in wakeup.todo
    /\ IF a \in Trackers
       THEN /\ task' = StartUpdate(a, config[a])
            /\ wakeup' = [wakeup EXCEPT !.todo = @ \ {a},
                                        !.updates[a] = @ + 1]
       ELSE /\ wakeup' = [wakeup EXCEPT !.todo = @ \ {a}]
            /\ UNCHANGED task
    /\ UNCHANGED <<store, now, issued, validRefresh, usedCodes, shown,
                   appearing, refreshInterval, refreshIntervals, timers,
                   created, config, image, totals, time>>

\* the next action of the loop: its settings are read and, if it is a
\* tracker, its update is called and awaited; the setup action matches no
\* branch
Wake_Next(a) ==
    /\ wakeup.pc = "loop"
    /\ a \in wakeup.todo
    /\ IF a \in Trackers
       THEN /\ task' = StartUpdate(a, config[a])
            /\ wakeup' = [wakeup EXCEPT !.pc = "await", !.at = a,
                                        !.updates[a] = @ + 1]
       ELSE /\ wakeup' = [wakeup EXCEPT !.todo = @ \ {a}]
            /\ UNCHANGED task
    /\ UNCHANGED <<store, now, issued, validRefresh, usedCodes, shown,
                   appearing, refreshInterval, refreshIntervals, timers,
                   created, config, image, totals, time>>

\* the awaited update has returned; the loop goes on
Wake_Resume ==
    /\ wakeup.pc = "await"
    /\ task[wakeup.at].pc = "done"
    /\ task' = [task EXCEPT ![wakeup.at] = IdleTask]
    /\ wakeup' = [wakeup EXCEPT !.pc = "loop", !.at = "none",
                                !.todo = @ \ {wakeup.at}]
    /\ UNCHANGED <<store, now, issued, validRefresh, usedCodes, shown,
                   appearing, refreshInterval, refreshIntervals, timers,
                   created, config, image, totals, time>>

\* the loop has visited every action
Wake_End ==
    /\ wakeup.pc = "loop"
    /\ wakeup.todo = {}
    /\ wakeup' = [wakeup EXCEPT !.pc = "done"]
    /\ UNCHANGED <<store, now, issued, validRefresh, usedCodes, task, shown,
                   appearing, refreshInterval, refreshIntervals, timers,
                   created, config, image, totals, time>>

\* the handler returns
Wake_Return ==
    /\ wakeup.pc = "done"
    /\ wakeup' = NoWake
    /\ UNCHANGED <<store, now, issued, validRefresh, usedCodes, task, shown,
                   appearing, refreshInterval, refreshIntervals, timers,
                   created, config, image, totals, time>>

\* the credentials in the store when the system wakes up: an access token
\* that is valid, one that has to be refreshed, or none
WakeRecords ==
    {Authenticated, [Authenticated EXCEPT !.expiresAt = Num(Margin)],
     EmptyStore}

\* the system wakes up with any of the tracker keys on the device; nothing
\* else runs
InitWake ==
    /\ store \in WakeRecords
    /\ now = 0
    /\ issued = <<Margin + 2>>
    /\ validRefresh = 1
    /\ usedCodes = {AuthCode(1)}
    /\ task = [t \in Tasks |-> IdleTask]
    /\ shown \in SUBSET Trackers
    /\ appearing = {}
    /\ refreshInterval = 0
    /\ refreshIntervals = [i \in WeekViews |-> 0]
    /\ timers = {}
    /\ created = 0
    /\ KeysFresh
    /\ KeysPlain

NextWake ==
    \/ \E visible \in SUBSET {"oauth"} : Wake_Start(visible)
    \/ \E a \in WakeActions : Wake_Next(a)
    \/ Wake_Resume
    \/ Wake_End
    \/ Wake_Return
    \/ \E c \in Trackers : GVT_Check(c)
    \/ \E c \in Trackers : UpstreamRefreshOk(c)
    \/ \E c \in Trackers, st \in AnyTimeFailures \cup {RejectedStatus} :
            UpstreamRefreshFail(c, st)
    \/ \E c \in Trackers : GVT_Save(c)
    \/ \E c \in Trackers : GVT_Catch(c)
    \/ \E c \in Trackers : Poll_AfterToken(c)
    \/ \E c \in Trackers : Poll_ApiOk(c)
    \/ \E c \in Trackers, st \in AnyTimeFailures \cup {401} :
            Poll_ApiFail(c, st)

SpecWake == InitWake /\ [][NextWake]_vars

\* settings events alone, on a fresh installation: the property inspector
\* sends a settings event for every change of a field, so a further event can
\* arrive while the previous one is handled
InitSettings ==
    /\ store = EmptyStore
    /\ now = 0
    /\ issued = <<>>
    /\ validRefresh = 0
    /\ usedCodes = {}
    /\ task = [t \in Tasks |-> IdleTask]
    /\ WidgetsShown

NextSettings ==
    \/ \E settings \in SettingsPayloads : S_Receive(settings)
    \/ \E settings \in SettingsPayloads : S_ReceiveNext(settings)
    \/ \E t \in SettingsTasks : S_SyncRead(t)
    \/ \E t \in SettingsTasks : S_SyncWrite(t)
    \/ \E t \in SettingsTasks : S_Guard(t)
    \/ \E t \in SettingsTasks : UpstreamExchangeOk(t)
    \/ \E t \in SettingsTasks, st \in AnyTimeFailures \cup {RejectedStatus} :
            UpstreamExchangeFail(t, st)
    \/ \E t \in SettingsTasks : X_Read(t)
    \/ \E t \in SettingsTasks : X_Write(t)
    \/ \E t \in SettingsTasks : X_Catch(t)
    \/ \E t \in SettingsTasks, ok \in BOOLEAN : Validate(t, ok)
    \/ \E t \in SettingsTasks : D_Read(t)
    \/ \E t \in SettingsTasks : D_Set(t)
    \/ \E t \in SettingsTasks : H_Return(t)

SpecSettings == InitSettings /\ [][NextSettings]_vars

Next ==
    \/ Tick
    \/ \E c \in Polls : GVT_Read(c)
    \/ \E c \in Polls : GVT_Check(c)
    \/ \E t \in Tasks : UpstreamRefreshOk(t)
    \/ \E t \in Tasks, st \in AnyTimeFailures \cup {RejectedStatus} :
            UpstreamRefreshFail(t, st)
    \/ \E c \in Polls : GVT_Save(c)
    \/ \E c \in Polls : GVT_Catch(c)
    \/ \E c \in Polls : Poll_AfterToken(c)
    \/ \E c \in Polls : Poll_ApiOk(c)
    \/ \E c \in Polls, st \in AnyTimeFailures \cup {401} : Poll_ApiFail(c, st)
    \/ \E t \in SetupTasks : UpstreamExchangeOk(t)
    \/ \E t \in SetupTasks, st \in AnyTimeFailures \cup {RejectedStatus} :
            UpstreamExchangeFail(t, st)
    \/ \E settings \in SettingsPayloads : S_Receive(settings)
    \/ \E t \in SettingsTasks : S_SyncRead(t)
    \/ \E t \in SettingsTasks : S_SyncWrite(t)
    \/ \E t \in SettingsTasks : S_Guard(t)
    \/ \E payload \in PluginPayloads : P_Receive(payload)
    \/ \E t \in SetupTasks : X_Read(t)
    \/ \E t \in SetupTasks : X_Write(t)
    \/ \E t \in SetupTasks : X_Catch(t)
    \/ K_Read
    \/ K_Save
    \/ K_Catch
    \/ \E t \in SetupTasks, ok \in BOOLEAN : Validate(t, ok)
    \/ \E t \in SetupTasks : D_Read(t)
    \/ \E t \in SetupTasks : D_Set(t)
    \/ \E t \in Tasks : H_Return(t)

Spec == Init /\ [][Next]_vars

----------------------------------------------------------------------------
(* Properties *)

\* a stored value that is a non-empty string
HasString(x) == x.t = "string" /\ x.v # 0
\* a record that holds both an access token and a refresh token
BothStored(s) == HasString(s.accessToken) /\ HasString(s.refreshToken)
\* a record that holds both a client id and a client secret
ClientStored(s) == HasString(s.clientId) /\ HasString(s.clientSecret)
\* the expiry a record holds, a missing or non-numeric one counting as 0
ExpiryOf(s) == IF s.expiresAt.t = "number" THEN s.expiresAt.v ELSE 0
\* getValidAccessToken of poll c is past its checks and has not yet handed
\* its result to the tracker
PastCheck(c) ==
    task[c].pc \in {"refreshing", "refreshOk", "refreshErr", "returned"}
\* poll c has neither received a token response nor caught an error
NoCallResult(c) == task[c].resp = 0 /\ task[c].err = NoError
\* poll c returned without having called the token endpoint
ReturnedDirectly(c) == task[c].pc = "returned" /\ NoCallResult(c)
\* poll c has sent a refresh request that upstream has not yet handled
Refreshing(c) ==
    /\ task[c].pc = "refreshing"
    /\ task[c].req = [clientId |-> task[c].settings.clientId,
                      clientSecret |-> task[c].settings.clientSecret,
                      grant |-> task[c].settings.refreshToken]
\* the record holds the three token fields of bundle n
HoldsBundle(s, n) ==
    /\ s.accessToken = AccessTok(n)
    /\ s.refreshToken = RefreshTok(n)
    /\ s.expiresAt = Num(issued[n])

\* C1 (as stated): with both tokens stored, getValidAccessToken returns the
\* stored access token without a call iff expiresAt - 300 > now, and in every
\* other case it sends a refresh request.
C1_Original ==
    \A c \in Polls :
        PastCheck(c) /\ NoCallResult(c) /\ BothStored(task[c].settings) =>
            IF ExpiryOf(task[c].settings) - 300 > task[c].now
            THEN /\ ReturnedDirectly(c)
                 /\ task[c].result = task[c].settings.accessToken
            ELSE Refreshing(c)

\* C1 (amended): with both tokens stored, getValidAccessToken returns the
\* stored access token without a call iff expiresAt - 300 > now; otherwise it
\* sends a refresh request if a client id and a client secret are stored, and
\* returns null without a call if not.
C1_ExpiryDecides ==
    \A c \in Polls :
        PastCheck(c) /\ NoCallResult(c) /\ BothStored(task[c].settings) =>
            IF ExpiryOf(task[c].settings) - 300 > task[c].now
            THEN /\ ReturnedDirectly(c)
                 /\ task[c].result = task[c].settings.accessToken
            ELSE IF ClientStored(task[c].settings)
            THEN Refreshing(c)
            ELSE ReturnedDirectly(c) /\ task[c].result = Null

\* a refresh request sent for a token that expires exactly 300 seconds after
\* the time of the call
C1_Witness ==
    \E c \in Polls :
        /\ Refreshing(c)
        /\ BothStored(task[c].settings)
        /\ ExpiryOf(task[c].settings) - 300 = task[c].now

\* C2: in every reachable state the stored accessToken, refreshToken and
\* expiresAt are those of one and the same token response (or all absent).
C2_OneBundle ==
    \/ /\ store.accessToken = Undefined
       /\ store.refreshToken = Undefined
       /\ store.expiresAt = Undefined
    \/ \E n \in 1..Len(issued) : HoldsBundle(store, n)

\* every handler has returned, two bundles were issued and saved, and a write
\* from an older read has put the first bundle back
C2_Witness ==
    /\ \A t \in Tasks : task[t].pc = "idle"
    /\ Len(issued) = 2
    /\ HoldsBundle(store, 1)

\* C3: a token returned by getValidAccessToken is the stored access token
\* with expiresAt - 300 > now as read in this call, or the access token of
\* the refresh response of this call.
C3_ReturnedTokenNotExpired ==
    \A c \in Polls :
        task[c].pc = "returned" /\ task[c].result # Null =>
            \/ /\ NoCallResult(c)
               /\ task[c].result = task[c].settings.accessToken
               /\ ExpiryOf(task[c].settings) - 300 > task[c].now
            \/ /\ task[c].resp > 0
               /\ task[c].result = AccessTok(task[c].resp)

\* one poll returned the token of its refresh response while the other
\* returned the stored token
C3_Witness ==
    \E c, d \in Polls :
        /\ task[c].pc = "returned" /\ task[c].resp > 0
        /\ task[c].result = AccessTok(task[c].resp)
        /\ ReturnedDirectly(d) /\ task[d].result # Null

\* C4: without an access token or without a refresh token in the store
\* (absent, empty or not a string) getValidAccessToken returns null, sends no
\* request and writes nothing.
C4_NoTokensNoCall ==
    [][\A c \in Polls :
        task[c].pc = "check" /\ ~BothStored(task[c].settings) =>
            \/ task'[c] = task[c]
            \/ /\ task'[c].pc = "returned"
               /\ task'[c].result = Null
               /\ task'[c].req = NoRequest
               /\ task'[c].resp = 0
               /\ store' = store
               /\ issued' = issued]_vars

\* null returned for a record with an access token and no refresh token
C4_Witness ==
    \E c \in Polls :
        /\ ReturnedDirectly(c)
        /\ task[c].result = Null
        /\ HasString(task[c].settings.accessToken)
        /\ ~HasString(task[c].settings.refreshToken)

\* C5 (as stated): without a client id or a client secret in the store
\* getValidAccessToken sends no request and returns null, whatever the tokens
\* and the expiry are.
C5_Original ==
    \A c \in Polls :
        PastCheck(c) /\ ~ClientStored(task[c].settings) =>
            ReturnedDirectly(c) /\ task[c].result = Null

\* C5 (amended): without a client id or a client secret in the store
\* getValidAccessToken sends no request; it returns null unless both tokens
\* are stored and expiresAt - 300 > now, and then the stored access token.
C5_NoClientNoCall ==
    \A c \in Polls :
        PastCheck(c) /\ ~ClientStored(task[c].settings) =>
            /\ ReturnedDirectly(c)
            /\ task[c].result =
                IF /\ BothStored(task[c].settings)
                   /\ ExpiryOf(task[c].settings) - 300 > task[c].now
                THEN task[c].settings.accessToken
                ELSE Null

\* null returned for a stale token that lacks the client secret
C5_Witness ==
    \E c \in Polls :
        /\ ReturnedDirectly(c)
        /\ task[c].result = Null
        /\ BothStored(task[c].settings)
        /\ HasString(task[c].settings.clientId)
        /\ ~HasString(task[c].settings.clientSecret)
        /\ ExpiryOf(task[c].settings) - 300 <= task[c].now

\* C6: the step that ends a successful refresh stores the response's access
\* token, refresh token and expiry and returns the response's access token.
C6_RefreshSaved ==
    [][\A c \in Polls :
        task[c].pc = "refreshOk" /\ task'[c] # task[c] =>
            /\ store'.accessToken = AccessTok(task[c].resp)
            /\ store'.refreshToken = RefreshTok(task[c].resp)
            /\ store'.expiresAt = Num(issued[task[c].resp])
            /\ task'[c].pc = "returned"
            /\ task'[c].result = AccessTok(task[c].resp)]_vars

\* a poll that read a stale record returned after its refresh, and the store
\* holds the bundle of the response in place of the one the poll had read
C6_Witness ==
    \E c \in Polls :
        /\ task[c].pc = "returned" /\ task[c].resp > 0
        /\ BothStored(task[c].settings) /\ ClientStored(task[c].settings)
        /\ ExpiryOf(task[c].settings) - 300 <= task[c].now
        /\ HoldsBundle(store, task[c].resp)
        /\ store.accessToken # task[c].settings.accessToken
        /\ store.refreshToken # task[c].settings.refreshToken

\* C7: when the refresh call fails, getValidAccessToken fails too (it throws)
\* instead of returning the null of "not configured".
C7_FailureSurfaces ==
    \A c \in Polls :
        task[c].pc = "returned" /\ task[c].err # NoError =>
            task[c].outcome = "threw"

\* C8: when the refresh of a poll is answered with HTTP 429 the tracker shows
\* the rate limit label.
C8_RateLimitedRefresh ==
    [][\A c \in Polls :
        /\ task[c].pc = "returned"
        /\ RateLimitStatus \in task[c].err.text
        /\ task'[c].pc = "done"
        => task'[c].title = "Rate Limit Wait 30m"]_vars

\* C9: the steps of a failing refresh (the rejection of the request and the
\* catch block that follows) leave every field of the store as it was.
C9_FailedRefreshKeepsStore ==
    [][\A c \in Polls :
        \/ task[c].pc = "refreshing" /\ task'[c].pc = "refreshErr"
        \/ task[c].pc = "refreshErr" /\ task'[c].pc = "returned"
        => store' = store]_vars

\* a poll returned after a failed refresh and the store holds the record the
\* poll had read
C9_Witness ==
    \E c \in Polls :
        /\ task[c].pc = "returned" /\ task[c].err # NoError
        /\ BothStored(store) /\ ClientStored(store)
        /\ store = task[c].settings

\* poll b lost the race: it read the same record as poll a, upstream accepted
\* a's refresh and rejected b's, and b has returned
LostRace(a, b) ==
    /\ a # b
    /\ task[a].settings = task[b].settings
    /\ task[a].pc \in {"refreshOk", "returned"} /\ task[a].resp > 0
    /\ task[b].pc = "returned" /\ RejectedStatus \in task[b].err.text

\* C10 (as stated): when two calls refresh with the same refresh token, at
\* most one succeeds, and when the loser fails the store already holds the
\* bundle written by the winner.
C10_Original ==
    \A a, b \in Polls :
        /\ a # b /\ task[a].settings = task[b].settings
            => ~(task[a].resp > 0 /\ task[b].resp > 0)
        /\ LostRace(a, b) => HoldsBundle(store, task[a].resp)

\* C10 (amended): when two calls refresh with the same refresh token and no
\* other handler runs, at most one succeeds and the loser never writes the
\* store: once the winner has returned the store holds the winner's bundle,
\* but the loser may fail before the winner has written it.
C10_LoserNeverOverwrites ==
    \A a, b \in Polls :
        /\ a # b /\ task[a].settings = task[b].settings
            => ~(task[a].resp > 0 /\ task[b].resp > 0)
        /\ LostRace(a, b) /\ task[a].pc = "returned"
            => HoldsBundle(store, task[a].resp)

\* both calls have returned, the loser with the rejection of the refresh
\* token the winner had used up
C10_Witness ==
    \E a, b \in Polls :
        /\ LostRace(a, b) /\ task[a].pc = "returned"
        /\ HoldsBundle(store, task[a].resp)

\* C11: when the refresh of a call fails while the store holds another, still
\* valid bundle than the one the call had read (a concurrent refresh has won
\* and saved its tokens), the call reads the store again and returns the
\* access token stored there.
C11_RereadAfterFailure ==
    [][\A c \in Polls :
        /\ task[c].pc = "refreshErr" /\ task'[c].pc = "returned"
        /\ BothStored(store)
        /\ store.refreshToken # task[c].settings.refreshToken
        /\ ExpiryOf(store) - 300 > now
        => task'[c].result = store.accessToken]_vars

\* the handlers through which an authorization code reaches exchangeToken
Submissions == {"settings", "plugin"}

\* C12: while the store holds an access token that has not expired, no
\* submission of an authorization code (settings update or exchangeToken
\* message) sends an exchange request.
C12_NoSecondExchange ==
    [][\A t \in Submissions :
        /\ HasString(store.accessToken)
        /\ ExpiryOf(store) > now
        /\ task[t].pc # "exchanging"
        => task'[t].pc # "exchanging"]_vars

\* C13 (as stated): when the exchange of a submitted code has been rejected
\* with HTTP 400, handling the submission has changed no field of the store:
\* the store is the record the settings handler read when it began.
C13_Original ==
    /\ task["settings"].pc = "exchangeErr"
    /\ RejectedStatus \in task["settings"].err.text
    => store = task["settings"].settings

\* C13 (amended): the steps of a failing exchange (the rejection of the
\* request and the catch block of exchangeToken) leave every field of the
\* store as it was; the clientId and clientSecret of a settings update are
\* written before the exchange starts.
C13_RejectedExchangeKeepsStore ==
    [][\A t \in Submissions :
        \/ task[t].pc = "exchanging" /\ task'[t].pc = "exchangeErr"
        \/ task[t].pc = "exchangeErr" /\ task'[t] # task[t]
        => store' = store]_vars

\* the exchange of a settings update has been rejected with HTTP 400; the
\* store holds the update's client id and secret and no token
C13_Witness ==
    /\ task["settings"].pc = "exchangeErr"
    /\ RejectedStatus \in task["settings"].err.text
    /\ task["settings"].settings = EmptyStore
    /\ store = WithClient(EmptyStore, task["settings"].ev)

\* C14: after a successful exchange the handler reads the global settings and
\* then writes them, before it validates the connection or sets a title; the
\* write stores the submitted clientId and clientSecret and the accessToken,
\* refreshToken and expiresAt of the response.
C14_ExchangeSaved ==
    [][\A t \in Submissions :
        /\ task[t].pc = "exchangeOk" /\ task'[t] # task[t]
            => task'[t].pc = "xWrite" /\ store' = store
        /\ task[t].pc = "xWrite" /\ task'[t] # task[t]
            => /\ store'.clientId = task[t].ev.clientId
               /\ store'.clientSecret = task[t].ev.clientSecret
               /\ HoldsBundle(store', task[t].resp)
               /\ task'[t].pc = "validate"
               /\ task'[t].title = "none" /\ task'[t].shown = "none"]_vars

\* the exchange of a message has just been saved over an empty store: the
\* record is authenticated and nothing has been validated or displayed yet
C14_Witness ==
    /\ task["plugin"].pc = "validate"
    /\ task["plugin"].title = "none"
    /\ ClientStored(store)
    /\ HoldsBundle(store, task["plugin"].resp)
    /\ Len(issued) = 1

\* the fields of the credential record
CredentialFields ==
    {"clientId", "clientSecret", "accessToken", "refreshToken", "expiresAt"}

\* C15: a credential field that has a value in the store is never made absent
\* again: every step leaves it with a value.
C15_NeverDestroyed ==
    [][\A f \in CredentialFields :
        store[f] # Undefined => store'[f] # Undefined]_vars

\* the active timers whose callback polls key i
TimersOf(i) == {k \in timers : k.action = i}

\* C16: a key that has disappeared (or has not appeared) has no active timer
\* polling for it.
C16_NoTimerAfterDisappear ==
    \A i \in Views : i \notin shown => TimersOf(i) = {}

\* C17: a key that is on the device and whose onWillAppear has completed has
\* an active timer that polls for it.
C17_VisibleHasTimer ==
    \A i \in Views : i \in shown \ appearing => TimersOf(i) # {}

\* the forms in which an error can carry the HTTP status st: as
\* error.response.status, as error.status, or only in its message
StatusForms(st) ==
    {[name |-> "AxiosError", respStatus |-> Num(st), status |-> Undefined,
      text |-> {}],
     [name |-> "Error", respStatus |-> Undefined, status |-> Num(st),
      text |-> {}],
     [name |-> "Error", respStatus |-> Undefined, status |-> Undefined,
      text |-> {st}]}

\* C18: a poll whose API call failed with HTTP 429 ends with the rate limit
\* label, and the catch block picks that label for every form in which an
\* error can carry the 429.
C18_RateLimitLabel ==
    /\ \A c \in Polls :
            /\ task[c].pc = "done"
            /\ task[c].err = WrapError(AxiosError(429))
            => task[c].title = "Rate Limit Wait 30m"
    /\ \A error \in StatusForms(429) :
            ErrorTitle(error) = "Rate Limit Wait 30m"

\* a poll whose refresh succeeded was then rate limited by the API
C18_Witness ==
    \E c \in Polls :
        /\ task[c].pc = "done"
        /\ 429 \in task[c].err.text
        /\ task[c].title = "Rate Limit Wait 30m"
        /\ Len(issued) > 1

\* C19: when getValidAccessToken has returned null the tracker sets the
\* 'Setup OAuth First' label and ends the poll without an API call.
C19_UnauthenticatedLabel ==
    [][\A c \in Polls :
        /\ task[c].pc = "returned" /\ task[c].result = Null
        /\ task'[c] # task[c]
        => /\ task'[c].pc = "done"
           /\ task'[c].title = "Setup OAuth First"
           /\ task'[c].calls = 0]_vars

\* a poll on a record without a refresh token has ended with the setup label
C19_Witness ==
    \E c \in Polls :
        /\ task[c].pc = "done"
        /\ task[c].title = "Setup OAuth First"
        /\ ~HasString(store.refreshToken)

\* the labels a poll ends with
Outcomes ==
    {"data", "Setup OAuth First", "Rate Limit Wait 30m", "Error Check Token"}

\* C20: every poll that has started reaches its end, where it has set one of
\* the data, unauthenticated and error labels and has thrown nothing.
C20_PollCompletes ==
    \A c \in Polls :
        task[c].pc # "idle" ~>
            /\ task[c].pc = "done"
            /\ task[c].title \in Outcomes
            /\ task[c].outcome # "threw"

\* a poll has ended with the generic error label after its API call failed
C20_Witness ==
    \E c \in Polls :
        /\ task[c].pc = "done"
        /\ task[c].err # NoError
        /\ task[c].title = "Error Check Token"

\* the positions at which a handler has a token request in flight
RequestPcs == {"refreshing", "exchanging"}
\* the positions from which a handler sends its token request: the start of
\* onKeyDown and onSendToPlugin, the checks of getValidAccessToken and the
\* guard of onDidReceiveSettings
SendPcs == {"idle", "check", "guard"}

\* C21: a handler that has sent its token request sends no other one: from a
\* position after the send (the request in flight, answered or failed) no step
\* of the handler sends a request, so one invocation of refreshAccessToken or
\* exchangeAuthorizationCode is one request and getValidAccessToken sends at
\* most one.
C21_NoRetry ==
    [][\A t \in Tasks :
        task[t].pc \notin SendPcs /\ task'[t] # task[t]
            => task'[t].pc \notin RequestPcs]_vars

\* a poll has returned null after its one refresh request failed, and the
\* key handler has shown its alert after its one request failed
C21_Witness ==
    /\ \E c \in Polls :
            /\ task[c].pc = "returned"
            /\ task[c].err # NoError
            /\ task[c].result = Null
    /\ task["key"].pc = "display"
    /\ task["key"].shown = "alert"

\* updateDisplay sets the title of task t in this step
SetsTitle(t) ==
    /\ task[t].pc \in {"displaySet", "xDisplaySet"}
    /\ task'[t].pc # task[t].pc

\* the title the claim gives for the record s at time n
TitleFor(s, n) ==
    IF s.accessToken # Undefined /\ s.refreshToken \notin {Undefined, Str(0)}
    THEN IF s.expiresAt # Undefined /\ s.expiresAt.v > n
         THEN "Connected"
         ELSE "Token Expired"
    ELSE IF s.clientId # Undefined /\ s.clientSecret # Undefined
         THEN "Ready to Auth"
         ELSE "Not Configured"

C28_KeyForcesRefresh ==
    [][task'["key"] # task["key"] =>
        /\ task["key"].pc # "refreshOk" => store' = store
        /\ task["key"].pc = "idle" =>
            IF HasString(store.refreshToken) /\ ClientStored(store)
            THEN /\ task'["key"].pc = "refreshing"
                 /\ task'["key"].req =
                        RefreshRequest(store.clientId, store.clientSecret,
                                       store.refreshToken)
            ELSE /\ task'["key"].pc = "display"
                 /\ task'["key"].req = NoRequest
        /\ task["key"].pc = "refreshOk" =>
            /\ store'.accessToken = AccessTok(task["key"].resp)
            /\ store'.refreshToken = RefreshTok(task["key"].resp)
            /\ store'.expiresAt = Num(issued[task["key"].resp])
        /\ task["key"].pc = "refreshErr" =>
            /\ task'["key"].shown = "alert"
            /\ task'["key"].pc = "display"]_vars

\* a press on a record whose access token is far from expiry was answered and
\* its tokens are in the store
C28_Witness ==
    /\ task["key"].pc = "validate"
    /\ task["key"].resp = 2
    /\ HoldsBundle(store, 2)
    /\ now = 0

\* a token request is in flight, or its response is not saved yet
TokenRequestOpen(t) ==
    task[t].pc \in RequestPcs \cup {"refreshOk", "exchangeOk", "xWrite"}

\* C23: whenever no token request is in flight and no response waits to be
\* saved, a refresh token held in the global store is the one upstream issued
\* last, the only one it still accepts.
C23_StoredRefreshIsLatest ==
    (/\ \A t \in Tasks : ~TokenRequestOpen(t)
     /\ HasString(store.refreshToken))
        => store.refreshToken = RefreshTok(validRefresh)

\* C25: the store write that ends a successful refresh in getValidAccessToken
\* leaves clientId, clientSecret and athleteId as they are in the store at the
\* moment of the write.
C25_SaveKeepsOtherFields ==
    [][\A c \in Polls :
        task[c].pc = "refreshOk" /\ task'[c].pc # "refreshOk"
            => /\ store'.clientId = store.clientId
               /\ store'.clientSecret = store.clientSecret
               /\ store'.athleteId = store.athleteId]_vars

\* C26: every active timer is the one its tracker's handle refers to (the
\* refreshInterval field, or the refreshIntervals entry of its key), and no
\* key has more than one active timer.
C26_TimersHaveHandle ==
    /\ \A k \in timers : Handle(k.action) = k.id
    /\ \A i \in Views : Cardinality(TimersOf(i)) <= 1

\* C24: no two handlers of settings events send an exchange request for the
\* same authorization code: while the exchange of a code is in flight or its
\* tokens are not stored yet, no other handler has a request for that code in
\* flight.
C24_OneExchangePerCode ==
    \A t1, t2 \in SettingsTasks :
        (/\ t1 # t2
         /\ task[t1].pc \in {"exchanging", "exchangeOk", "xWrite"}
         /\ task[t2].pc = "exchanging")
            => task[t1].ev.authCode # task[t2].ev.authCode

\* C27: every update of a tracker key, a timer's included, is called with the
\* settings most recently delivered for that key.
C27_UpdatesUseDeliveredSettings ==
    [][\A i \in Views :
        task[i].pc = "idle" /\ task'[i].pc = "check"
            => task'[i].widget = config'[i]]_vars

C30_BackgroundFollowsGoal ==
    [][\A c \in Polls :
        (task[c].pc # "done" /\ task'[c].pc = "done" /\ c \in shown)
            => image'[c] =
                IF task'[c].title = "data" /\ GoalReached(task[c].widget, totals)
                THEN "goal"
                ELSE "background"]_vars


\* C31: a tracker shows the rate-limit label only when the API call of its
\* poll failed with HTTP 429; every other failure gets the generic label
FailedWith429(c) == task[c].err = WrapError(AxiosError(RateLimitStatus))
C31_RateLimitOnlyOn429 ==
    \A c \in Polls :
        task[c].pc = "done" /\ task[c].err # NoError
            => IF FailedWith429(c)
               THEN task[c].title = "Rate Limit Wait 30m"
               ELSE task[c].title = "Error Check Token"

\* the fields of a printed time: the runs of characters between the colons
RECURSIVE Fields(_)
Fields(str) ==
    IF \A i \in 1..Len(str) : str[i] # ":"
    THEN <<str>>
    ELSE LET k == CHOOSE i \in 1..Len(str) :
                    str[i] = ":" /\ \A j \in 1..(i - 1) : str[j] # ":"
         IN  <<SubSeq(str, 1, k - 1)>> \o Fields(SubSeq(str, k + 1, Len(str)))
\* the number a field of digits prints
RECURSIVE Value(_)
Value(field) ==
    IF field = <<>>
    THEN 0
    ELSE LET last == field[Len(field)]
             d == CHOOSE x \in 0..9 : DigitChars[x + 1] = last
         IN  10 * Value(SubSeq(field, 1, Len(field) - 1)) + d
IsNumeral(field) ==
    /\ field # <<>>
    /\ \A i \in 1..Len(field) : \E x \in 0..9 : DigitChars[x + 1] = field[i]

====
